---- MODULE Spec2Model ----
(***************************************************************************)
(* Model of the JSON reader of src/json.hpp: the character classifier, the *)
(* lexer state machine, the ordered keyed map, the value node, the         *)
(* recursive-descent parser and the two entry points ParseRaw / ParseFile. *)
(*                                                                         *)
(* A text is a sequence of one-character strings.  Cursor positions are    *)
(* the 0-based offsets of the source; Input[Cursor + 1] is the byte at the *)
(* cursor.                                                                 *)
(***************************************************************************)
EXTENDS Integers, Sequences, FiniteSets

\* The element of a one-element set.  A value computed once and used several
\* times is bound as  Only({ F(x) : x \in {E} }).
Only(S) == CHOOSE x \in S : TRUE

(***************************************************************************)
(* Character classifier (json.hpp 255-299).                                *)
(***************************************************************************)
DecimalDigits == {"0", "1", "2", "3", "4", "5", "6", "7", "8", "9"}

LowerLetters == {"a", "b", "c", "d", "e", "f", "g", "h", "i", "j", "k", "l", "m",
                 "n", "o", "p", "q", "r", "s", "t", "u", "v", "w", "x", "y", "z"}

UpperLetters == {"A", "B", "C", "D", "E", "F", "G", "H", "I", "J", "K", "L", "M",
                 "N", "O", "P", "Q", "R", "S", "T", "U", "V", "W", "X", "Y", "Z"}

IsDigit(c) == c \in DecimalDigits \/ c = "."

IsAlpha(c) == c \in LowerLetters \/ c \in UpperLetters

IsNewline(c) == c = "\r" \/ c = "\n"

IsWhitespace(c) == c = " " \/ c = "\t"

IsQuote(c) == c = "'" \/ c = "\""

IsLeftParen(c) == c = "[" \/ c = "{"

IsRightParen(c) == c = "]" \/ c = "}"

IsBooleanChar(c) == c \in {"t", "r", "u", "e", "f", "a", "l", "s"}

IsNullChar(c) == c \in {"n", "u", "l"}

(***************************************************************************)
(* Token model and diagnostics.                                            *)
(***************************************************************************)
TokenTypeToString(type) == <<"TokenType::", type>>

Token(type, value) == [Type |-> type, Value |-> value]

\* A diagnostic written by Utils::LogError: the format and its argument.
LogError(format, arg) == [format |-> format, arg |-> arg]

ParenthesesNotBalanced == LogError("parentheses were not balanced", <<>>)

QuotesNotBalanced == LogError("quotes were not balanced", <<>>)

\* The literals the Boolean and Null states compare the lexeme with.
TrueText == <<"t", "r", "u", "e">>

FalseText == <<"f", "a", "l", "s", "e">>

NullText == <<"n", "u", "l", "l">>

(***************************************************************************)
(* Lexer (json.hpp 301-540).  A lexer object is a record of its members.   *)
(***************************************************************************)
LexerReset(raw) ==
    [m_Input |-> raw, m_CurrentState |-> "New", m_NextState |-> "New",
     m_Cursor |-> 0, m_Line |-> 0, m_LineStart |-> 0,
     m_ParenthesisBalancer |-> 0, m_QuotesBalancer |-> 0]

\* Reset that leaves the states of the scanner as they are.
Lexer_Reset_KeepsState(lx, raw) ==
    [lx EXCEPT !.m_Input = raw, !.m_Cursor = 0, !.m_Line = 0, !.m_LineStart = 0,
               !.m_ParenthesisBalancer = 0, !.m_QuotesBalancer = 0]

\* Lexer::Reset(raw) on a lexer that has been used: the members it assigns.
Lexer_Reset(lx, raw) ==
    [lx EXCEPT !.m_Input = raw, !.m_CurrentState = "New", !.m_NextState = "New",
               !.m_Cursor = 0, !.m_Line = 0, !.m_LineStart = 0,
               !.m_ParenthesisBalancer = 0, !.m_QuotesBalancer = 0]

\* m_Input[m_Cursor], read only where the cursor is inside the buffer.
CharAt(lx) == lx.m_Input[lx.m_Cursor + 1]

\* The condition of CheckEof and the diagnostics it writes when it holds.
AtEof(lx) == lx.m_Cursor >= Len(lx.m_Input)

CheckEof(lx) ==
    [eof |-> AtEof(lx),
     log |-> IF AtEof(lx)
             THEN (IF lx.m_ParenthesisBalancer # 0
                   THEN <<ParenthesesNotBalanced>> ELSE <<>>)
                  \o (IF lx.m_QuotesBalancer # 0
                      THEN <<QuotesNotBalanced>> ELSE <<>>)
             ELSE <<>>]

RECURSIVE SkipTo(_, _)
SkipTo(input, c) ==
    IF c < Len(input) /\ (IsWhitespace(input[c + 1]) \/ IsNewline(input[c + 1]))
    THEN SkipTo(input, c + 1)
    ELSE c

\* SkipWhitespaces: the cursor moves over blanks and newlines; CheckEof
\* writes its diagnostics in the iteration that meets the end of the input.
SkipWhitespaces(lx) ==
    LET moved == [lx EXCEPT !.m_Cursor = SkipTo(lx.m_Input, lx.m_Cursor)]
    IN [lexer |-> moved, ret |-> ~AtEof(moved), log |-> CheckEof(moved).log]

\* StartToken with the push flag ignored: the byte at the cursor is always
\* appended, the opening quote of a string included.
StartToken_AlwaysPush(s, type, nextState, push) ==
    [s EXCEPT !.token.Type = type,
              !.token.Value = Append(@, CharAt(s.lexer)),
              !.lexer.m_NextState = nextState]

\* StartToken on the running call s = [lexer, token, log].
StartToken(s, type, nextState, push) ==
    [s EXCEPT !.token.Type = type,
              !.token.Value = IF push THEN Append(@, CharAt(s.lexer)) ELSE @,
              !.lexer.m_NextState = nextState]

\* AppendChar that moves the cursor without appending the byte.
AppendChar_DropsByte(s, nextState) ==
    [s EXCEPT !.lexer.m_NextState = nextState,
              !.lexer.m_Cursor = @ + 1]

AppendChar(s, nextState) ==
    [s EXCEPT !.token.Value = Append(@, CharAt(s.lexer)),
              !.lexer.m_NextState = nextState,
              !.lexer.m_Cursor = @ + 1]

\* The results of a call of Lexer::NextToken: a return value, or the
\* std::out_of_range that m_Input.at(m_Cursor) throws at the end of the input.
Returned(s, ret) ==
    [lexer |-> s.lexer, token |-> s.token, log |-> s.log, ret |-> ret, exc |-> "none"]

Thrown(s, what) ==
    [lexer |-> s.lexer, token |-> s.token, log |-> s.log, ret |-> FALSE, exc |-> what]

\* The body of the New branch after SkipWhitespaces, up to m_Cursor++.
NewState(s) ==
    LET c == CharAt(s.lexer)
        bump(t) == [t EXCEPT !.lexer.m_Cursor = @ + 1]
    IN  IF IsDigit(c)
        THEN [done |-> FALSE, s |-> bump(StartToken(s, "Numeric", "Numeric", TRUE))]
        ELSE IF IsQuote(c)
        THEN [done |-> FALSE,
              s |-> bump([StartToken(s, "String", "String", FALSE)
                            EXCEPT !.lexer.m_QuotesBalancer = @ + 1])]
        ELSE IF c = "t" \/ c = "f"
        THEN [done |-> FALSE, s |-> bump(StartToken(s, "Boolean", "Boolean", TRUE))]
        ELSE IF c = "n"
        THEN [done |-> FALSE, s |-> bump(StartToken(s, "Null", "Null", TRUE))]
        ELSE IF IsLeftParen(c)
        THEN [done |-> FALSE,
              s |-> bump([StartToken(s, IF c = "[" THEN "OpLeftBracket" ELSE "OpLeftBrace",
                                     "Complete", TRUE)
                            EXCEPT !.lexer.m_ParenthesisBalancer = @ + 1])]
        ELSE IF IsRightParen(c)
        THEN [done |-> FALSE,
              s |-> bump([StartToken(s, IF c = "]" THEN "OpRightBracket" ELSE "OpRightBrace",
                                     "Complete", TRUE)
                            EXCEPT !.lexer.m_ParenthesisBalancer = @ - 1])]
        ELSE IF c = ","
        THEN [done |-> FALSE, s |-> bump(StartToken(s, "OpComma", "Complete", FALSE))]
        ELSE IF c = ":"
        THEN [done |-> FALSE, s |-> bump(StartToken(s, "OpColon", "Complete", FALSE))]
        ELSE [done |-> TRUE,
              s |-> [s EXCEPT !.log = Append(@, LogError("unexpected character %c", <<c>>))]]

\* One pass of the switch over the states other than New; the byte at the
\* cursor is read (by cur()) in every state but Complete.
OtherState(s) ==
    LET c == CharAt(s.lexer)
        next(st) == [s EXCEPT !.lexer.m_NextState = st]
        state == s.lexer.m_CurrentState
    IN  IF state = "Numeric"
        THEN IF IsDigit(c)
             THEN [done |-> FALSE, s |-> AppendChar(s, "Numeric")]
             ELSE IF IsAlpha(c)
             THEN LET pushed == Append(s.token.Value, c)
                  IN [done |-> TRUE,
                      s |-> [s EXCEPT !.token.Value = pushed,
                                      !.log = Append(@, LogError(
                                          "invalid numeric literal or symbol: %s", pushed))]]
             ELSE [done |-> FALSE, s |-> next("Complete")]
        ELSE IF state = "String"
        THEN IF IsQuote(c)
             THEN [done |-> FALSE,
                   s |-> [s EXCEPT !.lexer.m_QuotesBalancer = @ - 1,
                                   !.lexer.m_NextState = "Complete",
                                   !.lexer.m_Cursor = @ + 1]]
             ELSE [done |-> FALSE, s |-> AppendChar(s, "String")]
        ELSE IF state = "Boolean"
        THEN IF IsBooleanChar(c)
             THEN [done |-> FALSE, s |-> AppendChar(s, "Boolean")]
             ELSE IF s.token.Value = TrueText \/ s.token.Value = FalseText
             THEN [done |-> FALSE,
                   s |-> [s EXCEPT !.token.Type = "Boolean",
                                   !.lexer.m_NextState = "Complete"]]
             ELSE [done |-> TRUE,
                   s |-> [s EXCEPT !.log = Append(@, LogError("unexpected symbol: %s",
                                                              s.token.Value))]]
        ELSE IF state = "Null"
        THEN IF IsNullChar(c)
             THEN [done |-> FALSE, s |-> AppendChar(s, "Null")]
             ELSE IF s.token.Value = NullText
             THEN [done |-> FALSE,
                   s |-> [s EXCEPT !.token.Type = "Null",
                                   !.lexer.m_NextState = "Complete"]]
             ELSE [done |-> TRUE,
                   s |-> [s EXCEPT !.log = Append(@, LogError("unexpected symbol: %s",
                                                              s.token.Value))]]
        ELSE [done |-> FALSE, s |-> s]

\* One pass of the body of the do-while loop of Lexer::NextToken.
LexStep(s) ==
    IF s.lexer.m_CurrentState = "New"
    THEN Only({IF ~sk.ret
               THEN [done |-> TRUE, exc |-> "none",
                     s |-> [s EXCEPT !.lexer = sk.lexer, !.log = @ \o sk.log]]
               ELSE Only({[done |-> r.done, exc |-> "none", s |-> r.s] :
                          r \in {NewState([s EXCEPT !.lexer = sk.lexer])}}) :
               sk \in {SkipWhitespaces(s.lexer)}})
    ELSE IF s.lexer.m_CurrentState = "Complete"
    THEN [done |-> FALSE, exc |-> "none", s |-> [s EXCEPT !.lexer.m_NextState = "New"]]
    ELSE IF AtEof(s.lexer)
    THEN [done |-> TRUE, exc |-> "out_of_range", s |-> s]
    ELSE Only({[done |-> r.done, exc |-> "none", s |-> r.s] : r \in {OtherState(s)}})

\* The do-while loop of Lexer::NextToken.
RECURSIVE LexLoop(_)
LexLoop(s) ==
    Only({IF step.exc # "none" THEN Thrown(step.s, step.exc)
          ELSE IF step.done THEN Returned(step.s, FALSE)
          ELSE Only({IF t.lexer.m_NextState # "New" THEN LexLoop(t) ELSE Returned(t, TRUE) :
                     t \in {[step.s EXCEPT !.lexer.m_CurrentState =
                                              step.s.lexer.m_NextState]}}) :
          step \in {LexStep(s)}})

\* Lexer::NextToken(token) on the lexer lx.
Lexer_NextToken(lx, token) ==
    IF lx.m_Input = <<>>
    THEN Returned([lexer |-> lx, token |-> token, log |-> <<>>], FALSE)
    ELSE Only({IF AtEof(lx) THEN Returned(s, FALSE) ELSE LexLoop(s) :
               s \in {[lexer |-> lx, token |-> Token("Undefined", <<>>),
                       log |-> CheckEof(lx).log]}})

(***************************************************************************)
(* Ordered keyed map (json.hpp 108-115, 853-865) and value node            *)
(* (json.hpp 120-165).  A slot of Data holds a std::unique_ptr<Node>: the  *)
(* node it owns, or NullPtr.  Indecies maps a key to a 0-based index.      *)
(***************************************************************************)
NullPtr == [null |-> TRUE]

EmptyMap == [Indecies |-> [k \in {} |-> 0], Data |-> <<>>]

\* operator[] without the lookup of the key: every call appends a slot.
OrderedUnorderedMap_Subscript_NoLookup(map, key) ==
    [map |-> [Indecies |-> [k \in DOMAIN map.Indecies \cup {key} |->
                              IF k = key THEN Len(map.Data) ELSE map.Indecies[k]],
              Data |-> Append(map.Data, NullPtr)],
     index |-> Len(map.Data)]

\* operator[] that records Data.size() as it is after the push_back.
OrderedUnorderedMap_Subscript_SizeAfterPush(map, key) ==
    IF key \notin DOMAIN map.Indecies
    THEN [map |-> [Indecies |-> [k \in DOMAIN map.Indecies \cup {key} |->
                                   IF k = key THEN Len(map.Data) + 1 ELSE map.Indecies[k]],
                   Data |-> Append(map.Data, NullPtr)],
          index |-> Len(map.Data)]
    ELSE [map |-> map, index |-> map.Indecies[key]]

\* operator[](key): the map after the call and the index of the slot whose
\* reference is returned.
OrderedUnorderedMap_Subscript(map, key) ==
    IF key \notin DOMAIN map.Indecies
    THEN [map |-> [Indecies |-> [k \in DOMAIN map.Indecies \cup {key} |->
                                   IF k = key THEN Len(map.Data) ELSE map.Indecies[k]],
                   Data |-> Append(map.Data, NullPtr)],
          index |-> Len(map.Data)]
    ELSE [map |-> map, index |-> map.Indecies[key]]

\* std::make_unique<Node>(): a value-initialised node, all members zero,
\* so its kind is the first enumerator, Kind::Null.
NewNode == [m_Type |-> "Null", m_Value |-> [Zero |-> TRUE]]

\* `Node root;` of ParseRaw: default-initialised, members indeterminate.
IndeterminateNode == [m_Type |-> "Indeterminate", m_Value |-> [Indeterminate |-> TRUE]]

IsArray(node) == node.m_Type = "Array"

IsObject(node) == node.m_Type = "Object"

IsString(node) == node.m_Type = "String"

IsBool(node) == node.m_Type = "Boolean"

IsNumber(node) == node.m_Type = "Number"

IsNull(node) == node.m_Type = "Null"

(***************************************************************************)
(* std::stod on a lexeme of digits and dots (possibly ended by the letter  *)
(* the Numeric state pushed): the longest prefix  digits [ . digits ]  is  *)
(* converted; with no digit in it std::invalid_argument is thrown.  The    *)
(* value is kept as the decimal mant / 10^scale in lowest terms of ten,    *)
(* which identifies the double for lexemes of the lengths modelled.        *)
(***************************************************************************)
RECURSIVE DigitRun(_, _)
DigitRun(text, from) ==
    IF from <= Len(text) /\ text[from] \in DecimalDigits
    THEN <<text[from]>> \o DigitRun(text, from + 1)
    ELSE <<>>

DigitValue(d) == CHOOSE n \in 0..9 : <<"0", "1", "2", "3", "4", "5", "6", "7", "8", "9">>[n + 1] = d

RECURSIVE DigitsValue(_)
DigitsValue(ds) ==
    IF ds = <<>> THEN 0
    ELSE 10 * DigitsValue(SubSeq(ds, 1, Len(ds) - 1)) + DigitValue(ds[Len(ds)])

RECURSIVE StripZeros(_)
StripZeros(ds) ==
    IF ds # <<>> /\ ds[Len(ds)] = "0" THEN StripZeros(SubSeq(ds, 1, Len(ds) - 1)) ELSE ds

StoD(text) ==
    LET int == DigitRun(text, 1)
        dot == Len(int) < Len(text) /\ text[Len(int) + 1] = "."
        frac == IF dot THEN DigitRun(text, Len(int) + 2) ELSE <<>>
        kept == StripZeros(frac)
    IN  IF int = <<>> /\ frac = <<>>
        THEN [exc |-> "invalid_argument", value |-> [mant |-> 0, scale |-> 0]]
        ELSE [exc |-> "none",
              value |-> [mant |-> DigitsValue(int \o kept), scale |-> Len(kept)]]

(***************************************************************************)
(* Parser (json.hpp 687-824).  A parser is the record of its members, the  *)
(* diagnostics written so far, and the exception in flight ("none" while   *)
(* the parse runs); once an exception is in flight no further statement    *)
(* executes.  The parsing operators return the parser and the node they    *)
(* were handed, as the call leaves them.  calls and values count the calls *)
(* of Lexer::NextToken and of ParseValue made since Reset.                 *)
(***************************************************************************)
Parser_Reset(text) ==
    [m_Lexer |-> LexerReset(text), m_CurrentToken |-> Token("Undefined", <<>>),
     log |-> <<>>, exc |-> "none", calls |-> 0, values |-> 0]

Parser_NextToken(p) ==
    IF p.exc # "none" THEN p
    ELSE Only({[m_Lexer |-> r.lexer, m_CurrentToken |-> r.token,
                log |-> p.log \o r.log, exc |-> r.exc,
                calls |-> p.calls + 1, values |-> p.values] :
               r \in {Lexer_NextToken(p.m_Lexer, p.m_CurrentToken)}})

\* Expect that grabs the next token after a mismatch too.
Expect_AlwaysAdvances(p, type) ==
    IF p.exc # "none" THEN [p |-> p, ret |-> FALSE]
    ELSE IF p.m_CurrentToken.Type # type
    THEN [p |-> Parser_NextToken(
                   [p EXCEPT !.log = Append(@, LogError("expected %s but got %s",
                              <<TokenTypeToString(type), TokenTypeToString(type)>>))]),
          ret |-> FALSE]
    ELSE [p |-> Parser_NextToken(p), ret |-> TRUE]

\* Both %s of the message are formatted from the expected type.
Expect(p, type) ==
    IF p.exc # "none" THEN [p |-> p, ret |-> FALSE]
    ELSE IF p.m_CurrentToken.Type # type
    THEN [p |-> [p EXCEPT !.log = Append(@, LogError("expected %s but got %s",
                              <<TokenTypeToString(type), TokenTypeToString(type)>>))],
          ret |-> FALSE]
    ELSE [p |-> Parser_NextToken(p), ret |-> TRUE]

Out(p, node) == [p |-> p, node |-> node]

ParseAtom(p, node) ==
    LET tok == p.m_CurrentToken
    IN  IF p.exc # "none" THEN Out(p, node)
        ELSE IF tok.Type = "Boolean"
        THEN Out(Parser_NextToken(p),
                 [m_Type |-> "Boolean", m_Value |-> [Boolean |-> tok.Value = TrueText]])
        ELSE IF tok.Type = "String"
        THEN Out(Parser_NextToken(p),
                 [m_Type |-> "String", m_Value |-> [String |-> tok.Value]])
        ELSE IF tok.Type = "Numeric"
        THEN LET d == StoD(tok.Value)
             IN IF d.exc # "none"
                THEN Out([p EXCEPT !.exc = d.exc], [node EXCEPT !.m_Type = "Number"])
                ELSE Out(Parser_NextToken(p),
                         [m_Type |-> "Number", m_Value |-> [Number |-> d.value]])
        ELSE IF tok.Type = "Null"
        THEN Out(Parser_NextToken(p), [node EXCEPT !.m_Type = "Null"])
        ELSE Out([p EXCEPT !.log = Append(@, LogError("unexpected token type: %s",
                                                      TokenTypeToString(tok.Type)))],
                 node)

RECURSIVE ParseValue(_, _), ParseAssignment(_, _), ParseObject(_, _), ParseArray(_, _)
RECURSIVE ObjectLoop(_, _), ArrayLoop(_, _)

ParseValue(p, node) ==
    IF p.exc # "none" THEN Out(p, node)
    ELSE Only({IF q.m_CurrentToken.Type = "OpLeftBrace" THEN ParseObject(q, node)
               ELSE IF q.m_CurrentToken.Type = "OpLeftBracket" THEN ParseArray(q, node)
               ELSE ParseAtom(q, node) :
               q \in {[p EXCEPT !.values = @ + 1]}})

ParseAssignment(p, node) ==
    Only({IF e.p.exc # "none" THEN Out(e.p, node)
          ELSE Only({Out(v.p, [node EXCEPT !.m_Value.Object =
                                 [at.map EXCEPT !.Data[at.index + 1] = v.node]]) :
                     at \in {OrderedUnorderedMap_Subscript(node.m_Value.Object,
                                                           p.m_CurrentToken.Value)},
                     v \in {ParseValue(e.p, NewNode)}}) :
          e \in {Only({Expect(n, "OpColon") : n \in {Parser_NextToken(p)}})}})

\* while (m_CurrentToken.Type == TT::OpComma) { NextToken(); ParseAssignment(node); }
ObjectLoop(p, node) ==
    IF p.exc = "none" /\ p.m_CurrentToken.Type = "OpComma"
    THEN Only({ObjectLoop(a.p, a.node) :
               a \in {Only({ParseAssignment(n, node) : n \in {Parser_NextToken(p)}})}})
    ELSE Out(p, node)

ParseObject(p, node) ==
    IF p.exc # "none" THEN Out(p, node)
    ELSE Only({IF e.p.exc # "none" THEN Out(e.p, node)
               ELSE Only({Only({Out(Expect(l.p, "OpRightBrace").p, l.node) :
                                l \in {ObjectLoop(a.p, a.node)}}) :
                          a \in {ParseAssignment(e.p,
                                   [m_Type |-> "Object", m_Value |-> [Object |-> EmptyMap]])}}) :
               e \in {Expect(p, "OpLeftBrace")}})

\* do { NextToken(); push_back(make_unique<Node>()); ParseValue(back); }
\* while (m_CurrentToken.Type == TT::OpComma);
ArrayLoop(p, node) ==
    Only({IF n.exc # "none" THEN Out(n, node)
          ELSE Only({Only({IF v.p.exc = "none" /\ v.p.m_CurrentToken.Type = "OpComma"
                           THEN ArrayLoop(v.p, grown)
                           ELSE Out(v.p, grown) :
                           grown \in {[node EXCEPT !.m_Value.Array = Append(@, v.node)]}}) :
                     v \in {ParseValue(n, NewNode)}}) :
          n \in {Parser_NextToken(p)}})

ParseArray(p, node) ==
    IF p.exc # "none" THEN Out(p, node)
    ELSE Only({Out(Expect(l.p, "OpRightBracket").p, l.node) :
               l \in {ArrayLoop(p, [m_Type |-> "Array", m_Value |-> [Array |-> <<>>]])}})

\* Parser::Parse(root).
Parse(p, root) == Only({ParseObject(n, root) : n \in {Parser_NextToken(p)}})

\* ParseRaw(raw): the parser as the call leaves it and the root it returns;
\* when an exception leaves ParseRaw no root is returned.
NoNode == [none |-> TRUE]

ParseRaw(text) ==
    Only({[parser |-> r.p, root |-> IF r.p.exc = "none" THEN r.node ELSE NoNode] :
          r \in {Parse(Parser_Reset(text), IndeterminateNode)}})

\* Utils::ReadFile: with a file that cannot be opened it returns false and
\* leaves the output empty; otherwise the output is the file's content.
ReadFile(readable, content) ==
    [ret |-> readable, output |-> IF readable THEN content ELSE <<>>]

(***************************************************************************)
(* Node::operator[](key) (json.hpp 617-623).  On a node that is not an     *)
(* Object it throws std::out_of_range.  On an Object the map's operator[]  *)
(* yields the slot and the unique_ptr in it is dereferenced: a slot the    *)
(* call has just created holds a null pointer, and dereferencing it is     *)
(* undefined behaviour, modelled by the outcomes in NullDerefOutcomes.     *)
(***************************************************************************)
NullDerefOutcomes == {"null_reference", "crash"}

Node_SubscriptKey(node, key) ==
    IF ~IsObject(node)
    THEN [node |-> node, exc |-> "out_of_range", slot |-> NullPtr]
    ELSE LET at == OrderedUnorderedMap_Subscript(node.m_Value.Object, key)
         IN [node |-> [node EXCEPT !.m_Value.Object = at.map], exc |-> "none",
             slot |-> at.map.Data[at.index + 1]]

\* Node::Dump dereferences every slot of every Object it walks
\* (json.hpp 560-562) and every element of every Array (603-605).
RECURSIVE DumpDerefsNull(_)
DumpDerefsNull(node) ==
    IF node = NullPtr THEN TRUE
    ELSE IF IsObject(node)
    THEN \E i \in 1..Len(node.m_Value.Object.Data) :
            DumpDerefsNull(node.m_Value.Object.Data[i])
    ELSE IF IsArray(node)
    THEN \E i \in 1..Len(node.m_Value.Array) : DumpDerefsNull(node.m_Value.Array[i])
    ELSE FALSE

(***************************************************************************)
(* The nodes of a tree are named by paths: the 1-based positions of the     *)
(* slots (of an Object's Data, of an Array) walked from the root.           *)
(***************************************************************************)
Slots(node) ==
    IF IsObject(node) THEN node.m_Value.Object.Data
    ELSE IF IsArray(node) THEN node.m_Value.Array
    ELSE <<>>

RECURSIVE Paths(_)
Paths(node) ==
    {<<>>} \cup UNION {IF Slots(node)[i] = NullPtr THEN {}
                       ELSE {<<i>> \o p : p \in Paths(Slots(node)[i])} :
                       i \in 1..Len(Slots(node))}

RECURSIVE NodeAt(_, _)
NodeAt(node, path) ==
    IF path = <<>> THEN node ELSE NodeAt(Slots(node)[Head(path)], Tail(path))

RECURSIVE ReplaceAt(_, _, _)
ReplaceAt(node, path, new) ==
    IF path = <<>> THEN new
    ELSE IF IsObject(node)
    THEN [node EXCEPT !.m_Value.Object.Data[Head(path)] = ReplaceAt(@, Tail(path), new)]
    ELSE [node EXCEPT !.m_Value.Array[Head(path)] = ReplaceAt(@, Tail(path), new)]

(***************************************************************************)
(* Node::operator[](index) (json.hpp 625-631).  On a node that is not an   *)
(* Array it throws std::out_of_range.  On an Array the vector's operator[] *)
(* is applied without a bounds check and the unique_ptr it yields is       *)
(* dereferenced: with index >= size() that is undefined behaviour,         *)
(* modelled by the outcomes in IndexOutcomes.                              *)
(***************************************************************************)
IndexOutcomes == {"null_reference", "wild_reference", "crash"}

Node_SubscriptIndex(node, index) ==
    IF ~IsArray(node)
    THEN [exc |-> "out_of_range", inside |-> FALSE, slot |-> NullPtr]
    ELSE IF index < Len(node.m_Value.Array)
    THEN [exc |-> "none", inside |-> TRUE, slot |-> node.m_Value.Array[index + 1]]
    ELSE [exc |-> "none", inside |-> FALSE, slot |-> NullPtr]

\* The typed leaf extractors (json.hpp 633-655): the payload, or std::bad_cast.
NoValue == [none |-> TRUE]

\* Node::String() without the test of the kind.
Node_String_Unchecked(node) == [exc |-> "none", value |-> node.m_Value]

Node_String(node) ==
    IF IsString(node) THEN [exc |-> "none", value |-> node.m_Value]
    ELSE [exc |-> "bad_cast", value |-> NoValue]

Node_Bool(node) ==
    IF IsBool(node) THEN [exc |-> "none", value |-> node.m_Value]
    ELSE [exc |-> "bad_cast", value |-> NoValue]

Node_Number(node) ==
    IF IsNumber(node) THEN [exc |-> "none", value |-> node.m_Value]
    ELSE [exc |-> "bad_cast", value |-> NoValue]

(***************************************************************************)
(* Node::Dump (json.hpp 542-615) with the default tab size, as Json::Dump  *)
(* (826-832) calls it.  The members of an Object are written in the order  *)
(* in which the range-for walks obj.Indecies, a std::unordered_map: that   *)
(* order is the implementation's (it depends on the hashes of the keys and *)
(* on the bucket count), so every enumeration of the keys is an outcome;   *)
(* the same map is walked in the same order every time.                    *)
(***************************************************************************)
PrintTabs(spaces) == [i \in 1..spaces |-> " "]

DefaultTabSize == 4

DigitChar(n) == <<"0", "1", "2", "3", "4", "5", "6", "7", "8", "9">>[n + 1]

RECURSIVE NatDigits(_)
NatDigits(n) ==
    IF n < 10 THEN <<DigitChar(n)>> ELSE Append(NatDigits(n \div 10), DigitChar(n % 10))

\* A digit sequence without the zeros at its end (one digit at least is kept).
RECURSIVE DropZeros(_)
DropZeros(ds) ==
    IF Len(ds) > 1 /\ ds[Len(ds)] = "0" THEN DropZeros(SubSeq(ds, 1, Len(ds) - 1)) ELSE ds

RECURSIVE Pow(_, _)
Pow(base, n) == IF n = 0 THEN 1 ELSE base * Pow(base, n - 1)

\* The t with d <= n * 2^t < 2 * d, for n < d (BinaryUp) or the s with
\* d * 2^s <= n < d * 2^(s + 1), for n >= d (BinaryDown).
RECURSIVE BinaryUp(_, _)
BinaryUp(n, d) == IF n >= d THEN 0 ELSE 1 + BinaryUp(2 * n, d)

RECURSIVE BinaryDown(_, _)
BinaryDown(n, d) == IF n < 2 * d THEN 0 ELSE 1 + BinaryDown(n, 2 * d)

\* (x * 2^e) mod d.
RECURSIVE ShiftMod(_, _, _)
ShiftMod(x, e, d) == IF e = 0 THEN x % d ELSE ShiftMod((2 * x) % d, e - 1, d)

\* The side of n / (2 * d) on which the double nearest to it lies, d a power
\* of five: the remainder of n * 2^e by d, where e places the quotient in
\* [2^52, 2^53), is zero when the quotient is a double, and more than half of
\* d when the 53-bit significand is rounded up.
DoubleError(n, d) ==
    LET e == IF n >= d THEN 52 - BinaryDown(n, d) ELSE 52 + BinaryUp(n, d)
        x == ShiftMod(n % d, e, d)
    IN  IF x = 0 THEN "exact" ELSE IF 2 * x > d THEN "above" ELSE "below"

\* Whether the six leading digits head (of value k, the last of them worth
\* 10^unit) are rounded up, given the digits rest that follow them. Digits
\* other than exactly one half decide by themselves; at one half the stored
\* double decides, and round-half-even when the double is the value itself.
RoundsUp(k, rest, unit) ==
    LET tail == DropZeros(rest)
    IN  IF DigitValue(rest[1]) # 5 THEN DigitValue(rest[1]) > 5
        ELSE IF tail # <<"5">> THEN TRUE
        ELSE LET error == IF unit >= 0 THEN "exact"
                          ELSE DoubleError(2 * k + 1, Pow(5, 0 - unit))
             IN  IF error = "exact" THEN k % 2 = 1 ELSE error = "above"

\* The exponent field of the scientific notation: a sign and two digits or more.
ExponentText(x) ==
    LET magnitude == IF x < 0 THEN 0 - x ELSE x
        digits == NatDigits(magnitude)
    IN  <<"e", IF x < 0 THEN "-" ELSE "+">>
            \o (IF Len(digits) < 2 THEN <<"0">> ELSE <<>>) \o digits

\* operator<<(double) with the default format and precision (printf's %g with
\* precision 6) of the double nearest to mant / 10^scale: the value is rounded
\* to six significant digits; with X the decimal exponent of the rounded value,
\* it is written in fixed notation when -4 <= X < 6 and in scientific notation
\* otherwise, without the zeros at the end of the fraction and without a
\* decimal point that nothing follows. Exact for mant below 2^31 and, when the
\* seventh digit onwards is exactly one half, for scale up to 13.
FormatDouble(value) ==
    LET ds == NatDigits(value.mant)
        n == Len(ds)
        first == n - 1 - value.scale
        k == DigitsValue(SubSeq(ds, 1, 6))
        up == RoundsUp(k, SubSeq(ds, 7, n), first - 5)
        rounded == IF n <= 6 THEN ds
                   ELSE IF up THEN NatDigits(k + 1) ELSE SubSeq(ds, 1, 6)
        X == IF Len(rounded) > 6 THEN first + 1 ELSE first
        sig == DropZeros(rounded)
        m == Len(sig)
    IN  IF value.mant = 0 THEN <<"0">>
        ELSE IF X < 0 - 4 \/ X >= 6
        THEN <<sig[1]>> \o (IF m > 1 THEN <<".">> \o SubSeq(sig, 2, m) ELSE <<>>)
                 \o ExponentText(X)
        ELSE IF X < 0
        THEN <<"0", ".">> \o [i \in 1..(0 - X - 1) |-> "0"] \o sig
        ELSE IF m <= X + 1
        THEN sig \o [i \in 1..(X + 1 - m) |-> "0"]
        ELSE SubSeq(sig, 1, X + 1) \o <<".">> \o SubSeq(sig, X + 2, m)

\* The orders in which a range-for can walk the keys of an unordered_map.
UnorderedMapOrders(indecies) ==
    {order \in [1..Cardinality(DOMAIN indecies) -> DOMAIN indecies] :
        \A i, j \in DOMAIN order : order[i] = order[j] => i = j}

RECURSIVE Node_Dump(_, _, _), DumpMembers(_, _, _, _), DumpElements(_, _, _, _)

\* The texts Dump(output, offset, tabSize) can write for the node.
Node_Dump(node, offset, tabSize) ==
    IF IsObject(node)
    THEN {PrintTabs(offset) \o <<"{", "\n">> \o body \o PrintTabs(offset) \o <<"}", ",">> :
             body \in UNION {DumpMembers(node.m_Value.Object, order, offset, tabSize) :
                                order \in UnorderedMapOrders(node.m_Value.Object.Indecies)}}
    ELSE IF IsBool(node)
    THEN {PrintTabs(offset) \o (IF node.m_Value.Boolean THEN TrueText ELSE FalseText)
             \o <<",">>}
    ELSE IF IsNumber(node)
    THEN {PrintTabs(offset) \o FormatDouble(node.m_Value.Number) \o <<",">>}
    ELSE IF IsString(node)
    THEN {PrintTabs(offset) \o <<"\"">> \o node.m_Value.String \o <<"\"", ",">>}
    ELSE IF IsArray(node)
    THEN {PrintTabs(offset) \o <<"[", "\n">> \o body \o PrintTabs(offset) \o <<"]", ",">> :
             body \in DumpElements(node.m_Value.Array, 1, offset, tabSize)}
    ELSE {PrintTabs(offset) \o NullText}

\* The lines of the members named by order, in that order.
DumpMembers(obj, order, offset, tabSize) ==
    IF order = <<>> THEN {<<>>}
    ELSE LET name == Head(order)
             value == obj.Data[obj.Indecies[name] + 1]
             composite == IsObject(value) \/ IsArray(value)
         IN  {PrintTabs(offset + tabSize) \o <<"\"">> \o name \o <<"\"", ":", " ">>
                 \o (IF composite THEN <<"\n">> ELSE <<>>) \o v \o <<"\n">> \o rest :
                 v \in Node_Dump(value, IF composite THEN offset + tabSize ELSE 0, tabSize),
                 rest \in DumpMembers(obj, Tail(order), offset, tabSize)}

\* The lines of the elements of an Array from the i-th on.
DumpElements(array, i, offset, tabSize) ==
    IF i > Len(array) THEN {<<>>}
    ELSE {v \o <<"\n">> \o rest :
             v \in Node_Dump(array[i], offset + tabSize, tabSize),
             rest \in DumpElements(array, i + 1, offset, tabSize)}

\* Json::Dump(node, tabSize).
Dump(node, tabSize) == Node_Dump(node, 0, tabSize)

(***************************************************************************)
(* Input texts.  A document is a tree [t, lex, kids] derivable from the    *)
(* grammar of the dialect: t is the kind of value, lex the lexeme of an    *)
(* atom (or the key of a member), kids the elements of an array or the     *)
(* members [t |-> "member", lex |-> key, kids |-> <<value>>] of an object. *)
(***************************************************************************)
MaxNodes == 4

MaxFrags == 3

DocKeys == {<<"a">>, <<"b">>}

Atom(t, lex) == [t |-> t, lex |-> lex, kids |-> <<>>]

DocAtoms == {Atom("str", <<"s">>), Atom("num", <<"1", ".", "5", "0">>), Atom("num", <<".">>),
             Atom("true", TrueText), Atom("false", FalseText), Atom("null", NullText)}

NoDoc == [t |-> "none", lex |-> <<>>, kids |-> <<>>]

RECURSIVE DocValues(_), DocLists(_), DocMembers(_)

\* The values of exactly n nodes, and the non-empty lists of values and of
\* members of n nodes in all.
DocValues(n) ==
    IF n = 1 THEN DocAtoms
    ELSE {[t |-> "arr", lex |-> <<>>, kids |-> l] : l \in DocLists(n - 1)}
         \cup {[t |-> "obj", lex |-> <<>>, kids |-> m] : m \in DocMembers(n - 1)}

DocLists(n) ==
    UNION {{<<v>> \o l : v \in DocValues(k),
                         l \in IF k = n THEN {<<>>} ELSE DocLists(n - k)} : k \in 1..n}

DocMembers(n) ==
    UNION {{<<[t |-> "member", lex |-> key, kids |-> <<v>>]>> \o m :
               key \in DocKeys, v \in DocValues(k),
               m \in IF k = n THEN {<<>>} ELSE DocMembers(n - k)} : k \in 1..n}

\* The documents: top-level objects of at most MaxNodes nodes.
Docs == UNION {{[t |-> "obj", lex |-> <<>>, kids |-> m] : m \in DocMembers(n)} :
                 n \in 1..(MaxNodes - 1)}

\* The text of a document; sp is the blank run written after ':' and ','.
RECURSIVE Render(_, _), RenderList(_, _)
Render(d, sp) ==
    IF d.t = "str" THEN <<"'">> \o d.lex \o <<"'">>
    ELSE IF d.t = "member" THEN <<"\"">> \o d.lex \o <<"\"", ":">> \o sp \o Render(d.kids[1], sp)
    ELSE IF d.t = "arr" THEN <<"[">> \o RenderList(d.kids, sp) \o <<"]">>
    ELSE IF d.t = "obj" THEN <<"{">> \o RenderList(d.kids, sp) \o <<"}">>
    ELSE d.lex

RenderList(l, sp) ==
    IF Len(l) = 1 THEN Render(l[1], sp)
    ELSE Render(l[1], sp) \o <<",">> \o sp \o RenderList(Tail(l), sp)

Blanks == {<<>>, <<" ">>}

\* Arbitrary texts: up to MaxFrags fragments, alone or in the place of the
\* value of the first member of a top-level object, whose key is a STRING
\* or a NUMERIC.
Fragments == {<<"{">>, <<"}">>, <<"[">>, <<"]">>, <<",">>, <<":">>, <<"\"">>,
              <<"1">>, <<".">>, <<"a">>, <<" ">>, TrueText}

RECURSIVE FragTexts(_)
FragTexts(n) ==
    IF n = 0 THEN {<<>>}
    ELSE FragTexts(n - 1) \cup {t \o f : t \in FragTexts(n - 1), f \in Fragments}

Prefixes == {<<>>, <<"{", "\"", "k", "\"", ":">>, <<"{", "1", ":">>}

Suffixes == {<<>>, <<"}">>}

\* Numbers on both sides of the limits of operator<<(double): a seventh digit
\* to round, a million and more, less than 0.0001.
LongNumbers == {<<"1", "0", "0", "0", "0", "0", "0">>, <<"1", "2", "3", "4", "5", "6", "7">>,
                <<"1", "2", "3", "4", "5", "6", ".", "5">>, <<"9", "9", "9", "9", "9", "9">>,
                <<".", "0", "0", "0", "1">>, <<".", "0", "0", "0", "0", "1">>}

NumberTexts == {<<"{", "\"", "k", "\"", ":">> \o num \o <<"}">> : num \in LongNumbers}

Texts == {pre \o body \o post : pre \in Prefixes, body \in FragTexts(MaxFrags), post \in Suffixes}
             \cup NumberTexts

AccessKeys == {<<"k">>, <<"z">>}

AccessIndices == {0, 1, 2}

\* The token types Parser hands to Expect (json.hpp 777, 789, 802, 823).
ExpectTypes == {"OpColon", "OpLeftBrace", "OpRightBrace", "OpRightBracket"}

\* Texts of quotes of both classes, backslashes and other bytes.
MaxChars == 4

StringChars == {"'", "\"", "\\", "a", " ", ","}

RECURSIVE CharTexts(_)
CharTexts(n) ==
    IF n = 0 THEN {<<>>}
    ELSE CharTexts(n - 1) \cup {Append(t, c) : t \in CharTexts(n - 1), c \in StringChars}

StringTexts == CharTexts(MaxChars)

\* The lookups on an ordered keyed map: at most MaxLookups, of these keys.
MaxLookups == 5

MapKeys == {<<"a">>, <<"b">>, <<"c">>}

\* The texts a used parser is reset to, besides the text it was scanning.
ResetTexts == {<<>>, <<"1", "a">>}

(***************************************************************************)
(* The state machine.                                                      *)
(*   raw     the text handed in (for ParseFile, the content of the file)   *)
(*   doc     the document raw was written from, NoDoc for an arbitrary text*)
(*   pc      "start", "parsed" (a parse returned or threw), "lexing" (the  *)
(*           parser's lexer is stepped token by token), "expected" (after  *)
(*           a call of Expect), "accessed" (after an accessor of a node),  *)
(*           "dumped"                                                      *)
(*   source  how the text reached ParseRaw: "raw", "file", "missing"       *)
(*   lexer, token   the parser's m_Lexer and m_CurrentToken                *)
(*   prev    while lexing: the lexer as it was before the last call of     *)
(*           Parser::NextToken or Expect, NoLexer before the first call    *)
(*   call    that last call: which it was, the type Expect was given, and  *)
(*           m_CurrentToken as it was before the call                      *)
(*   ret     the value the last call returned                              *)
(*   root    the root ParseRaw returned, NoNode before and after a throw   *)
(*   log     the diagnostics written by the last operation                 *)
(*   thrown  the exception that left the last operation, or "none"         *)
(*   access  the last accessor call on a node of the tree: the accessor,   *)
(*           the path of the node, the key or index, whether the key was   *)
(*           absent, the outcome, the root before the call and the child   *)
(*           or payload returned                                           *)
(*   work    the calls of Lexer::NextToken and of ParseValue the parse made*)
(*   output  the text Json::Dump returned                                  *)
(*   table   an OrderedUnorderedMap of its own: the map, the keys looked   *)
(*           up so far, the map before the last lookup and the index of    *)
(*           the slot it returned                                          *)
(***************************************************************************)
VARIABLES raw, doc, pc, source, lexer, prev, token, ret, root, log, thrown, access,
          call, work, output, table

vars == <<raw, doc, pc, source, lexer, prev, token, ret, root, log, thrown, access,
          call, work, output, table>>

NoLexer == [none |-> TRUE]

NoAccess == [op |-> "none", path |-> <<>>, key |-> <<>>, index |-> 0, absent |-> FALSE,
             outcome |-> "none", was |-> NoNode, result |-> NoNode]

NoCall == [op |-> "none", type |-> "Undefined", token |-> Token("Undefined", <<>>)]

EmptyTable == [map |-> EmptyMap, keys |-> <<>>, before |-> EmptyMap, index |-> 0]

Start(text, d) ==
    /\ raw = text
    /\ doc = d
    /\ pc = "start"
    /\ source = "none"
    /\ lexer = LexerReset(<<>>)
    /\ prev = NoLexer
    /\ token = Token("Undefined", <<>>)
    /\ ret = FALSE
    /\ root = NoNode
    /\ log = <<>>
    /\ thrown = "none"
    /\ access = NoAccess
    /\ call = NoCall
    /\ work = [calls |-> 0, values |-> 0]
    /\ output = <<>>
    /\ table = EmptyTable

Init == \E text \in Texts : Start(text, NoDoc)

DocInit == \E d \in Docs, sp \in Blanks : Start(Render(d, sp), d)

StringInit == \E text \in StringTexts : Start(text, NoDoc)

MapInit == Start(<<>>, NoDoc)

\* The effect of ParseRaw(text) on the state.
Parsed(text) ==
    \E r \in {ParseRaw(text)} :
        /\ pc' = "parsed"
        /\ lexer' = r.parser.m_Lexer
        /\ token' = r.parser.m_CurrentToken
        /\ root' = r.root
        /\ log' = r.parser.log
        /\ thrown' = r.parser.exc
        /\ work' = [calls |-> r.parser.calls, values |-> r.parser.values]
        /\ UNCHANGED <<prev, ret, access, call, output, table>>

\* Json::ParseRaw(raw).
DoParseRaw ==
    /\ pc = "start"
    /\ source' = "raw"
    /\ Parsed(raw)
    /\ UNCHANGED <<raw, doc>>

\* Json::ParseFile(fileName): the result of ReadFile is ignored and
\* whatever it left in the output is parsed.
DoParseFile ==
    /\ pc = "start"
    /\ \E readable \in BOOLEAN :
          LET f == ReadFile(readable, raw)
          IN  /\ source' = IF readable THEN "file" ELSE "missing"
              /\ raw' = f.output
              /\ doc' = IF readable THEN doc ELSE NoDoc
              /\ Parsed(f.output)

\* Parser::Reset(raw), after which the lexer is stepped by Parser::NextToken.
DoReset ==
    /\ pc = "start"
    /\ pc' = "lexing"
    /\ lexer' = LexerReset(raw)
    /\ token' = Token("Undefined", <<>>)
    /\ UNCHANGED <<raw, doc, source, prev, ret, root, log, thrown, access,
                   call, work, output, table>>

\* Parser::NextToken(): one call of Lexer::NextToken(m_CurrentToken).
DoNextToken ==
    /\ pc = "lexing"
    /\ \E r \in {Lexer_NextToken(lexer, token)} :
           /\ lexer' = r.lexer
           /\ prev' = lexer
           /\ token' = r.token
           /\ ret' = r.ret
           /\ log' = r.log
           /\ thrown' = r.exc
    /\ call' = [op |-> "NextToken", type |-> "Undefined", token |-> token]
    /\ UNCHANGED <<raw, doc, pc, source, root, access, work, output, table>>

\* Parser::Expect(type) on the parser as the lexing has left it.
DoExpect ==
    /\ pc = "lexing"
    /\ \E type \in ExpectTypes :
          \E e \in {Expect([m_Lexer |-> lexer, m_CurrentToken |-> token, log |-> <<>>,
                            exc |-> "none", calls |-> 0, values |-> 0], type)} :
              /\ lexer' = e.p.m_Lexer
              /\ prev' = lexer
              /\ token' = e.p.m_CurrentToken
              /\ ret' = (e.ret /\ e.p.exc = "none")
              /\ log' = e.p.log
              /\ thrown' = e.p.exc
              /\ call' = [op |-> "Expect", type |-> type, token |-> token]
    /\ pc' = "expected"
    /\ UNCHANGED <<raw, doc, source, root, access, work, output, table>>

\* node[key] on a node of the tree a parse returned.
DoSubscriptKey ==
    /\ pc = "parsed"
    /\ root # NoNode
    /\ \E path \in Paths(root), key \in AccessKeys :
          LET node == NodeAt(root, path)
              r == Node_SubscriptKey(node, key)
              missing == IsObject(node) /\ key \notin DOMAIN node.m_Value.Object.Indecies
          IN  /\ root' = ReplaceAt(root, path, r.node)
              /\ thrown' = r.exc
              /\ \E o \in (IF r.exc # "none" THEN {"threw"}
                           ELSE IF r.slot = NullPtr THEN NullDerefOutcomes
                           ELSE {"child"}) :
                    access' = [op |-> "key", path |-> path, key |-> key, index |-> 0,
                               absent |-> missing, outcome |-> o, was |-> root,
                               result |-> IF o = "child" THEN r.slot ELSE NoNode]
    /\ pc' = "accessed"
    /\ log' = <<>>
    /\ UNCHANGED <<raw, doc, source, lexer, prev, token, ret, call, work, output, table>>

\* node[index] on a node of the tree a parse returned.
DoSubscriptIndex ==
    /\ pc = "parsed"
    /\ root # NoNode
    /\ \E path \in Paths(root), index \in AccessIndices :
          LET r == Node_SubscriptIndex(NodeAt(root, path), index)
          IN  /\ thrown' = r.exc
              /\ \E o \in (IF r.exc # "none" THEN {"threw"}
                           ELSE IF r.inside THEN {"child"}
                           ELSE IndexOutcomes) :
                    access' = [op |-> "index", path |-> path, key |-> <<>>, index |-> index,
                               absent |-> FALSE, outcome |-> o, was |-> root,
                               result |-> IF o = "child" THEN r.slot ELSE NoNode]
    /\ pc' = "accessed"
    /\ log' = <<>>
    /\ UNCHANGED <<raw, doc, source, lexer, prev, token, ret, root, call, work, output,
                   table>>

\* The effect of a typed leaf extractor whose result is r on the node at path.
Extracted(op, path, r) ==
    /\ pc' = "accessed"
    /\ thrown' = r.exc
    /\ access' = [op |-> op, path |-> path, key |-> <<>>, index |-> 0, absent |-> FALSE,
                  outcome |-> IF r.exc # "none" THEN "threw" ELSE "value", was |-> root,
                  result |-> r.value]
    /\ log' = <<>>
    /\ UNCHANGED <<raw, doc, source, lexer, prev, token, ret, root, call, work, output,
                   table>>

\* node.String(), node.Bool(), node.Number() on a node of the tree.
DoString ==
    /\ pc = "parsed"
    /\ root # NoNode
    /\ \E path \in Paths(root) : Extracted("String", path, Node_String(NodeAt(root, path)))

DoBool ==
    /\ pc = "parsed"
    /\ root # NoNode
    /\ \E path \in Paths(root) : Extracted("Bool", path, Node_Bool(NodeAt(root, path)))

DoNumber ==
    /\ pc = "parsed"
    /\ root # NoNode
    /\ \E path \in Paths(root) : Extracted("Number", path, Node_Number(NodeAt(root, path)))

\* Json::Dump(root) on the root a parse returned.
DoDump ==
    /\ pc = "parsed"
    /\ root # NoNode
    /\ \E text \in Dump(root, DefaultTabSize) : output' = text
    /\ pc' = "dumped"
    /\ UNCHANGED <<raw, doc, source, lexer, prev, token, ret, root, log, thrown, access,
                   call, work, table>>

\* Parser::Reset(bytes) on a parser whose lexer has been stepped.
DoResetAgain ==
    /\ pc = "lexing"
    /\ call.op = "NextToken"
    /\ \E bytes \in ResetTexts \cup {raw} :
          /\ raw' = bytes
          /\ lexer' = Lexer_Reset(lexer, bytes)
    /\ token' = Token("Undefined", <<>>)
    /\ call' = [op |-> "Reset", type |-> "Undefined", token |-> token]
    /\ UNCHANGED <<doc, pc, source, prev, ret, root, log, thrown, access, work, output,
                   table>>

\* table[key]: one lookup-or-insert on the map of its own.
DoMapSubscript ==
    /\ pc = "start"
    /\ Len(table.keys) < MaxLookups
    /\ \E key \in MapKeys :
          \E at \in {OrderedUnorderedMap_Subscript(table.map, key)} :
              table' = [map |-> at.map, keys |-> Append(table.keys, key),
                        before |-> table.map, index |-> at.index]
    /\ UNCHANGED <<raw, doc, pc, source, lexer, prev, token, ret, root, log, thrown,
                   access, call, work, output>>

Next ==
    \/ DoParseRaw \/ DoParseFile \/ DoReset \/ DoNextToken \/ DoExpect
    \/ DoSubscriptKey \/ DoSubscriptIndex \/ DoString \/ DoBool \/ DoNumber \/ DoDump

Spec == Init /\ [][Next]_vars

\* The parses of the texts of the documents.
DocNext == DoParseRaw \/ DoParseFile

DocSpec == DocInit /\ [][DocNext]_vars

\* The lexer stepped over the texts of quotes, backslashes and other bytes.
StringNext == DoReset \/ DoNextToken

StringSpec == StringInit /\ [][StringNext]_vars

\* The lexer stepped over the texts and reset between the steps.
LexNext == DoReset \/ DoNextToken \/ DoResetAgain

LexSpec == Init /\ [][LexNext]_vars

\* The sequences of lookups on an ordered keyed map.
MapNext == DoMapSubscript

MapSpec == MapInit /\ [][MapNext]_vars

(***************************************************************************)
(* Helpers of the properties.                                              *)
(***************************************************************************)
Range(f) == {f[i] : i \in DOMAIN f}

\* The kind of node the leading token of a document value dictates.
KindOf(t) ==
    IF t = "obj" THEN "Object"
    ELSE IF t = "arr" THEN "Array"
    ELSE IF t = "str" THEN "String"
    ELSE IF t = "num" THEN "Number"
    ELSE IF t = "null" THEN "Null"
    ELSE "Boolean"

MemberKeys(d) == [i \in 1..Len(d.kids) |-> d.kids[i].lex]

\* The child stored under a key of an Object node.
Child(node, key) == node.m_Value.Object.Data[node.m_Value.Object.Indecies[key] + 1]

\* The tree mirrors the document: kinds, keys, element order, and the values
\* of strings and booleans.
RECURSIVE Mirror(_, _)
Mirror(node, d) ==
    /\ node # NoNode
    /\ node # NullPtr
    /\ node.m_Type = KindOf(d.t)
    /\ d.t = "str" => node.m_Value.String = d.lex
    /\ d.t \in {"true", "false"} => node.m_Value.Boolean = (d.t = "true")
    /\ d.t = "arr" =>
          /\ Len(node.m_Value.Array) = Len(d.kids)
          /\ \A i \in 1..Len(d.kids) : Mirror(node.m_Value.Array[i], d.kids[i])
    /\ d.t = "obj" =>
          /\ DOMAIN node.m_Value.Object.Indecies = Range(MemberKeys(d))
          /\ Len(node.m_Value.Object.Data) = Cardinality(Range(MemberKeys(d)))
          /\ \A i \in 1..Len(d.kids) : Mirror(Child(node, d.kids[i].lex), d.kids[i].kids[1])

\* No object of the document repeats a key.
RECURSIVE DistinctKeys(_)
DistinctKeys(d) ==
    /\ d.t = "obj" => \A i, j \in 1..Len(d.kids) : d.kids[i].lex = d.kids[j].lex => i = j
    /\ \A i \in 1..Len(d.kids) : DistinctKeys(d.kids[i])

\* Every NUMERIC lexeme of the document starts with a digit, or with a dot
\* that a digit follows.
RECURSIVE NumbersConvertible(_)
NumbersConvertible(d) ==
    /\ d.t = "num" => \/ d.lex[1] \in DecimalDigits
                      \/ Len(d.lex) >= 2 /\ d.lex[1] = "." /\ d.lex[2] \in DecimalDigits
    /\ \A i \in 1..Len(d.kids) : NumbersConvertible(d.kids[i])

\* The keys of a sequence in the order of their first occurrence.
RECURSIVE FirstOccurrences(_)
FirstOccurrences(keys) ==
    IF keys = <<>> THEN <<>>
    ELSE LET front == FirstOccurrences(SubSeq(keys, 1, Len(keys) - 1))
         IN IF keys[Len(keys)] \in Range(front) THEN front ELSE Append(front, keys[Len(keys)])

\* The value of the last member of an object document with the given key.
LastValue(d, key) ==
    d.kids[CHOOSE i \in 1..Len(d.kids) :
              /\ d.kids[i].lex = key
              /\ \A j \in (i + 1)..Len(d.kids) : d.kids[j].lex # key].kids[1]

\* In every Object node of the tree the slots are in the order of the first
\* occurrence of their keys in the document, one slot per distinct key.
RECURSIVE KeyOrder(_, _)
KeyOrder(node, d) ==
    /\ node # NullPtr
    /\ d.t = "arr" =>
          /\ IsArray(node)
          /\ Len(node.m_Value.Array) = Len(d.kids)
          /\ \A i \in 1..Len(d.kids) : KeyOrder(node.m_Value.Array[i], d.kids[i])
    /\ d.t = "obj" =>
          /\ IsObject(node)
          /\ LET order == FirstOccurrences(MemberKeys(d))
                 map == node.m_Value.Object
             IN  /\ Len(map.Data) = Len(order)
                 /\ DOMAIN map.Indecies = Range(order)
                 /\ \A j \in 1..Len(order) :
                       /\ map.Indecies[order[j]] = j - 1
                       /\ KeyOrder(map.Data[j], LastValue(d, order[j]))

PrefixK == <<"{", "\"", "k", "\"", ":">>

IsPrefix(pre, text) == Len(pre) <= Len(text) /\ SubSeq(text, 1, Len(pre)) = pre

\* The number of '{' less the number of '}' among the bytes of the text
\* that lie outside strings (a string runs from a quote to the next quote).
RECURSIVE BraceExcess(_, _, _)
BraceExcess(text, i, inString) ==
    IF i > Len(text) THEN 0
    ELSE IF IsQuote(text[i]) THEN BraceExcess(text, i + 1, ~inString)
    ELSE (IF inString THEN 0 ELSE IF text[i] = "{" THEN 1 ELSE IF text[i] = "}" THEN -1 ELSE 0)
         + BraceExcess(text, i + 1, inString)

\* The run of digits and dots that starts at the 1-based position from.
RECURSIVE NumericRun(_, _)
NumericRun(text, from) ==
    IF from <= Len(text) /\ IsDigit(text[from])
    THEN <<text[from]>> \o NumericRun(text, from + 1)
    ELSE <<>>

\* At position from a run of digits and dots starts that an ASCII letter
\* follows immediately; RunAndLetter is the run with that letter.
RunThenLetter(text, from) ==
    LET run == NumericRun(text, from)
    IN  /\ run # <<>>
        /\ from + Len(run) <= Len(text)
        /\ IsAlpha(text[from + Len(run)])

RunAndLetter(text, from) == SubSeq(text, from, from + Len(NumericRun(text, from)))

InvalidNumeric(lexeme) == LogError("invalid numeric literal or symbol: %s", lexeme)

(***************************************************************************)
(* The claims.                                                             *)
(***************************************************************************)

\* C1 as stated: for every text derivable from the grammar of the dialect
\* the parse returns an Object root that mirrors the document (each "k": v
\* pair a child under k of the kind v's leading token dictates, array
\* elements in input order) and writes no diagnostic.
C1_EveryDocumentMirrored ==
    (pc = "parsed" /\ doc # NoDoc) =>
        /\ thrown = "none"
        /\ log = <<>>
        /\ Mirror(root, doc)

\* C1 amended: the same for the documents in which no object repeats a key
\* and every NUMERIC lexeme starts with a digit or with a dot followed by a
\* digit (so that std::stod converts it).
C1_DocumentMirrored ==
    (pc = "parsed" /\ doc # NoDoc /\ DistinctKeys(doc) /\ NumbersConvertible(doc)) =>
        /\ thrown = "none"
        /\ log = <<>>
        /\ IsObject(root)
        /\ Mirror(root, doc)

\* A document with a nested object and a second member has been parsed and
\* mirrored.
C1_Witness ==
    /\ pc = "parsed"
    /\ doc # NoDoc
    /\ DistinctKeys(doc) /\ NumbersConvertible(doc)
    /\ Len(doc.kids) = 2
    /\ doc.kids[1].kids[1].t = "obj"
    /\ doc.kids[2].kids[1].t = "num"
    /\ Mirror(root, doc)

\* C2: for every input text parse-from-text completes and returns a tree;
\* no lexical or syntactic error makes an exception leave the parse.
C2_ParseAlwaysReturns ==
    pc = "parsed" => (thrown = "none" /\ root # NoNode)

\* C3: in every Object node built by the parser the children are ordered by
\* the first occurrence of their keys in the input, and a key that occurs
\* again adds no child: as many children as distinct keys.
C3_KeysInFirstOccurrenceOrder ==
    (pc = "parsed" /\ doc # NoDoc /\ thrown = "none") => KeyOrder(root, doc)

\* An object whose keys are a, b, a has been parsed into two children.
C3_Witness ==
    /\ pc = "parsed"
    /\ thrown = "none"
    /\ doc # NoDoc
    /\ MemberKeys(doc) = <<<<"a">>, <<"b">>, <<"a">>>>
    /\ Len(root.m_Value.Object.Data) = 2

\* C4: parsing {} at the top level, or as a nested value, yields an Object
\* node with no children.
C4_EmptyObjectHasNoChildren ==
    /\ (pc = "parsed" /\ raw = <<"{", "}">>) =>
          /\ thrown = "none"
          /\ IsObject(root)
          /\ root.m_Value.Object.Data = <<>>
    /\ (pc = "parsed" /\ raw = PrefixK \o <<"{", "}", "}">>) =>
          /\ thrown = "none"
          /\ IsObject(root)
          /\ <<"k">> \in DOMAIN root.m_Value.Object.Indecies
          /\ IsObject(Child(root, <<"k">>))
          /\ Child(root, <<"k">>).m_Value.Object.Data = <<>>

\* C5: parsing [] as a value inside an object yields an Array node with no
\* children.
C5_EmptyArrayHasNoChildren ==
    (pc = "parsed" /\ raw = PrefixK \o <<"[", "]", "}">>) =>
        /\ thrown = "none"
        /\ IsObject(root)
        /\ <<"k">> \in DOMAIN root.m_Value.Object.Indecies
        /\ IsArray(Child(root, <<"k">>))
        /\ Child(root, <<"k">>).m_Value.Array = <<>>

\* C6: parse-from-file on a file the reader cannot read returns an empty
\* root of kind Null and raises no exception.
C6_MissingFileGivesNullRoot ==
    (pc = "parsed" /\ source = "missing") =>
        /\ thrown = "none"
        /\ root # NoNode
        /\ IsNull(root)

\* C7: when a string has been opened by a quote and the input ends before a
\* closing quote, the scan has written "quotes were not balanced".
C7_UnterminatedStringReported ==
    (pc \in {"parsed", "lexing"} /\ AtEof(lexer) /\ lexer.m_QuotesBalancer # 0) =>
        QuotesNotBalanced \in Range(log)

\* C8: for every input with a '{' that no closing bracket matches before
\* the end of the input, the parse writes "parentheses were not balanced".
C8_UnmatchedBraceReported ==
    (pc = "parsed" /\ source = "raw" /\ BraceExcess(raw, 1, FALSE) > 0) =>
        ParenthesesNotBalanced \in Range(log)

\* C9: when a run of digits and dots is immediately followed by an ASCII
\* letter, next() writes "invalid numeric literal or symbol: <run and
\* letter>" and returns false, and the enclosing parse still returns.
C9_InvalidNumericReported ==
    /\ (pc = "lexing" /\ prev # NoLexer /\ prev.m_CurrentState = "New"
          /\ RunThenLetter(raw, SkipTo(raw, prev.m_Cursor) + 1)) =>
          /\ thrown = "none"
          /\ ret = FALSE
          /\ log = <<InvalidNumeric(RunAndLetter(raw, SkipTo(raw, prev.m_Cursor) + 1))>>
    /\ (pc = "parsed" /\ source = "raw" /\ IsPrefix(PrefixK, raw)
          /\ RunThenLetter(raw, Len(PrefixK) + 1)) =>
          /\ InvalidNumeric(RunAndLetter(raw, Len(PrefixK) + 1)) \in Range(log)
          /\ thrown = "none"
          /\ root # NoNode

\* C10: keyed access on an Object node with an absent key returns a
\* reference to a valid child node created for the key; afterwards the key
\* is present and the tree can still be traversed and dumped.
C10_AbsentKeyGivesValidChild ==
    (pc = "accessed" /\ access.absent) =>
        /\ access.outcome = "child"
        /\ access.key \in DOMAIN NodeAt(root, access.path).m_Value.Object.Indecies
        /\ ~DumpDerefsNull(root)

\* The six kind predicates of a node, and how many of them are true.
KindPredicates(node) ==
    <<IsArray(node), IsObject(node), IsString(node), IsBool(node), IsNumber(node),
      IsNull(node)>>

KindsTrue(node) == Cardinality({k \in 1..6 : KindPredicates(node)[k]})

\* The node the last accessor was called on, as it was before the call.
Accessed == NodeAt(access.was, access.path)

\* C11: keyed access on a node that is not an Object and indexed access on
\* a node that is not an Array fail with std::out_of_range, String(), Bool()
\* and Number() on a node of another kind fail with std::bad_cast, a failing
\* call leaves the tree unchanged, and exactly one of the six kind
\* predicates is true of every node of a parsed tree.
C11_ShapeOrFail ==
    /\ (pc \in {"parsed", "accessed", "dumped"} /\ root # NoNode) =>
          \A path \in Paths(root) : KindsTrue(NodeAt(root, path)) = 1
    /\ pc = "accessed" =>
          /\ (\/ access.op = "key" /\ ~IsObject(Accessed)
              \/ access.op = "index" /\ ~IsArray(Accessed)) =>
                 (thrown = "out_of_range" /\ access.outcome = "threw" /\ root = access.was)
          /\ (\/ access.op = "String" /\ ~IsString(Accessed)
              \/ access.op = "Bool" /\ ~IsBool(Accessed)
              \/ access.op = "Number" /\ ~IsNumber(Accessed)) =>
                 (thrown = "bad_cast" /\ access.outcome = "threw" /\ root = access.was)

\* String() has been called on a Number child of the root and has failed.
C11_Witness ==
    /\ pc = "accessed"
    /\ access.op = "String"
    /\ access.path # <<>>
    /\ IsNumber(Accessed)
    /\ thrown = "bad_cast"
    /\ root = access.was

\* C12: indexed access on an Array node of n children returns the i-th
\* child for every index i < n and returns no child for an index >= n.
C12_IndexDefinedOnChildren ==
    (pc = "accessed" /\ access.op = "index" /\ IsArray(Accessed)) =>
        IF access.index < Len(Accessed.m_Value.Array)
        THEN /\ thrown = "none"
             /\ access.outcome = "child"
             /\ access.result = Accessed.m_Value.Array[access.index + 1]
        ELSE access.outcome \in {"threw", "crash"}

\* The position of the first '"' of the text at or after position i.
RECURSIVE NextDoubleQuote(_, _)
NextDoubleQuote(text, i) ==
    IF i > Len(text) \/ text[i] = "\"" THEN i ELSE NextDoubleQuote(text, i + 1)

\* At position i a line starts that holds a member at the given indent:
\* a newline, indent blanks and the '"' that opens the key.
IsMemberLine(text, i, indent) ==
    /\ i + indent + 1 <= Len(text)
    /\ text[i] = "\n"
    /\ \A j \in 1..indent : text[i + j] = " "
    /\ text[i + indent + 1] = "\""

\* The keys of the member lines at the given indent, from position i on.
RECURSIVE DumpedKeys(_, _, _)
DumpedKeys(text, i, indent) ==
    IF i > Len(text) THEN <<>>
    ELSE IF IsMemberLine(text, i, indent)
    THEN LET from == i + indent + 2
             to == NextDoubleQuote(text, from)
         IN <<SubSeq(text, from, to - 1)>> \o DumpedKeys(text, to + 1, indent)
    ELSE DumpedKeys(text, i + 1, indent)

\* The keys of an ordered keyed map in the order of their slots.
KeysInSlotOrder(map) ==
    [j \in 1..Len(map.Data) |-> CHOOSE k \in DOMAIN map.Indecies : map.Indecies[k] = j - 1]

\* C13: the dump of an Object node writes its members in the order in which
\* the keys were first inserted, the order of the slots of the object.
C13_DumpInInsertionOrder ==
    (pc = "dumped" /\ IsObject(root)) =>
        DumpedKeys(output, 1, DefaultTabSize) = KeysInSlotOrder(root.m_Value.Object)

\* C14: after any sequence of lookups on an ordered keyed map every key
\* points to a slot of the sequence, every slot is that of exactly one key
\* (as many keys as slots), the slots are in the order in which their keys
\* were first looked up, and the lookup of a known key changes nothing and
\* yields the slot of the key.
C14_MapInvariants ==
    LET map == table.map
        order == FirstOccurrences(table.keys)
    IN  /\ \A k \in DOMAIN map.Indecies : map.Indecies[k] \in 0..(Len(map.Data) - 1)
        /\ \A i \in 0..(Len(map.Data) - 1) :
              Cardinality({k \in DOMAIN map.Indecies : map.Indecies[k] = i}) = 1
        /\ Cardinality(DOMAIN map.Indecies) = Len(map.Data)
        /\ Len(order) = Len(map.Data)
        /\ \A j \in 1..Len(order) :
              order[j] \in DOMAIN map.Indecies /\ map.Indecies[order[j]] = j - 1
        /\ (table.keys # <<>> /\ table.keys[Len(table.keys)] \in DOMAIN table.before.Indecies) =>
              /\ map = table.before
              /\ table.index = table.before.Indecies[table.keys[Len(table.keys)]]

\* The keys a, b, a, c, b have been looked up: three slots, and the last
\* lookup was that of a known key.
C14_Witness ==
    /\ table.keys = <<<<"a">>, <<"b">>, <<"a">>, <<"c">>, <<"b">>>>
    /\ Len(table.map.Data) = 3
    /\ table.index = 1

\* The run of bytes of the classes of the BOOLEAN keywords from a position.
RECURSIVE BooleanRun(_, _)
BooleanRun(text, from) ==
    IF from <= Len(text) /\ IsBooleanChar(text[from])
    THEN <<text[from]>> \o BooleanRun(text, from + 1)
    ELSE <<>>

\* C15: every Boolean node of a tree the parser returns stems from a lexeme
\* that is exactly true or false, and its value is true exactly for true
\* (stated of the value of the member k the text starts with).
C15_BooleanNodesFromKeywords ==
    (/\ pc = "parsed" /\ source = "raw" /\ root # NoNode
     /\ IsPrefix(PrefixK, raw)
     /\ <<"k">> \in DOMAIN root.m_Value.Object.Indecies
     /\ IsBool(Child(root, <<"k">>))) =>
        LET run == BooleanRun(raw, SkipTo(raw, Len(PrefixK)) + 1)
        IN  /\ run \in {TrueText, FalseText}
            /\ Child(root, <<"k">>).m_Value.Boolean = (run = TrueText)

\* The text opens an object and the first byte after the '{' and the blanks
\* that follow it is not a quote: the key of the first assignment is not a
\* STRING token.
FirstKeyNotString(text) ==
    /\ IsPrefix(<<"{">>, text)
    /\ SkipTo(text, 1) < Len(text)
    /\ ~IsQuote(text[SkipTo(text, 1) + 1])

\* C16: where the grammar expects a token of a specific kind the parser
\* checks the kind of the current token and writes a diagnostic when it
\* differs (stated of the STRING key of the first assignment: a parse that
\* returns, of a text whose first key is not a STRING, has written a
\* diagnostic).
C16_KeyKindChecked ==
    (pc = "parsed" /\ source = "raw" /\ thrown = "none" /\ FirstKeyNotString(raw)) =>
        log # <<>>

\* C17: Expect(type) with a current token of that type advances the parser
\* by one call of Lexer::NextToken and returns true; with a token of another
\* type it writes one diagnostic, returns false and leaves the current token
\* and the lexer unchanged.
C17_ExpectAdvancesOrReports ==
    pc = "expected" =>
        IF call.token.Type = call.type
        THEN /\ thrown = "none"
             /\ ret = TRUE
             /\ \E r \in {Lexer_NextToken(prev, call.token)} :
                   lexer = r.lexer /\ token = r.token
        ELSE /\ thrown = "none"
             /\ ret = FALSE
             /\ Len(log) = 1
             /\ token = call.token
             /\ lexer = prev

\* The text of the structural tokens.
StructuralText(type) ==
    IF type = "OpLeftBrace" THEN <<"{">>
    ELSE IF type = "OpRightBrace" THEN <<"}">>
    ELSE IF type = "OpLeftBracket" THEN <<"[">>
    ELSE IF type = "OpRightBracket" THEN <<"]">>
    ELSE IF type = "OpComma" THEN <<",">>
    ELSE <<":">>

StructuralTypes ==
    {"OpLeftBrace", "OpRightBrace", "OpLeftBracket", "OpRightBracket", "OpComma", "OpColon"}

\* The 1-based position of the first byte of the token the last call of
\* NextToken scanned: the first byte after the blanks at the cursor.
TokenStart == SkipTo(raw, prev.m_Cursor) + 1

\* C18: the text of every token a successful next() returns is the single
\* structural character for the six structural kinds, and the bytes of the
\* literal (without the quotes of a string) for the other kinds.
C18_TokenInvariant ==
    (pc = "lexing" /\ call.op = "NextToken" /\ thrown = "none" /\ ret) =>
        IF token.Type \in StructuralTypes
        THEN token.Value = StructuralText(token.Type)
        ELSE IF token.Type = "String"
        THEN token.Value = SubSeq(raw, TokenStart + 1, lexer.m_Cursor - 1)
        ELSE /\ token.Type \in {"Numeric", "Boolean", "Null"}
             /\ token.Value = SubSeq(raw, TokenStart, lexer.m_Cursor)

\* The position of the first quote of either class at or after position i.
RECURSIVE NextQuote(_, _)
NextQuote(text, i) ==
    IF i > Len(text) \/ text[i] \in {"'", "\""} THEN i ELSE NextQuote(text, i + 1)

\* The last call of NextToken started, in the New state, at a quote that
\* another quote follows somewhere.
StringOpened ==
    /\ pc = "lexing" /\ call.op = "NextToken"
    /\ prev.m_CurrentState = "New"
    /\ TokenStart <= Len(raw)
    /\ raw[TokenStart] \in {"'", "\""}
    /\ NextQuote(raw, TokenStart + 1) <= Len(raw)

\* C19: for a string opened by a quote of either class that a quote follows
\* somewhere, the String token's text is the bytes strictly between the
\* opening quote and the next quote of either class, a backslash being an
\* ordinary byte, the cursor ends just past that quote and the quote
\* balance is back at 0.
C19_StringUpToNextQuote ==
    StringOpened =>
        /\ thrown = "none"
        /\ ret = TRUE
        /\ token = Token("String", SubSeq(raw, TokenStart + 1,
                                          NextQuote(raw, TokenStart + 1) - 1))
        /\ lexer.m_Cursor = NextQuote(raw, TokenStart + 1)
        /\ lexer.m_QuotesBalancer = 0

\* A string opened by ' and closed by " with a backslash inside was scanned.
C19_Witness ==
    /\ StringOpened
    /\ raw[TokenStart] = "'"
    /\ raw[NextQuote(raw, TokenStart + 1)] = "\""
    /\ token = Token("String", <<"\\", "a">>)

\* C20: Parse terminates on every text: it makes at most one call of
\* Lexer::NextToken per byte of the text and two more, and no more
\* calls of ParseValue than of NextToken, because a call of NextToken that
\* returns true has moved the cursor forward and one that returns false
\* leaves a current token that is no comma and opens no object or array.
C20_ParseTerminates ==
    /\ pc = "parsed" =>
          /\ work.calls <= Len(raw) + 2
          /\ work.values <= work.calls
    /\ (pc = "lexing" /\ call.op = "NextToken" /\ thrown = "none") =>
          IF ret THEN lexer.m_Cursor > prev.m_Cursor
          ELSE token.Type \notin {"OpComma", "OpLeftBrace", "OpLeftBracket"}

\* A parse of a text that ends after a comma inside a nested array has
\* returned, with calls of NextToken that failed.
C20_Witness ==
    /\ pc = "parsed"
    /\ thrown = "none"
    /\ raw = PrefixK \o <<"[", "1", ",">>
    /\ work.calls > 0
    /\ work.values >= 2

\* C21: once next() has returned false every later next() on the lexer
\* returns false too, without moving the cursor and without raising (so the
\* failure lasts until a reset), and after Reset(bytes) the lexer is in the
\* state of a fresh lexer reset on bytes, whatever it had scanned before.
C21_FailureAbsorbing ==
    /\ (pc = "lexing" /\ call.op = "NextToken" /\ thrown = "none" /\ ~ret) =>
          \E r \in {Lexer_NextToken(lexer, token)} :
              /\ r.ret = FALSE
              /\ r.exc = "none"
              /\ r.lexer.m_Cursor = lexer.m_Cursor
              /\ r.lexer.m_CurrentState = lexer.m_CurrentState
    /\ (pc = "lexing" /\ call.op = "Reset") =>
          /\ lexer = LexerReset(raw)
          /\ token = Token("Undefined", <<>>)

\* The scan of a text failed in the Numeric state, at a letter after a run
\* of digits, and the parser has been reset to another text.
C21_Witness ==
    /\ pc = "lexing"
    /\ call.op = "Reset"
    /\ ret = FALSE
    /\ prev.m_CurrentState = "Numeric"
    /\ prev.m_Input # raw
    /\ lexer = LexerReset(raw)

\* The position of the bracket that closes the one opened before position
\* i, depth brackets being open there (0 when none closes it); like the
\* lexer's balance it counts the brackets of both kinds outside strings.
RECURSIVE ClosingAt(_, _, _, _)
ClosingAt(text, i, depth, inString) ==
    IF i > Len(text) THEN 0
    ELSE IF IsQuote(text[i]) THEN ClosingAt(text, i + 1, depth, ~inString)
    ELSE IF inString THEN ClosingAt(text, i + 1, depth, inString)
    ELSE IF IsLeftParen(text[i]) THEN ClosingAt(text, i + 1, depth + 1, inString)
    ELSE IF IsRightParen(text[i])
    THEN (IF depth = 1 THEN i ELSE ClosingAt(text, i + 1, depth - 1, inString))
    ELSE ClosingAt(text, i + 1, depth, inString)

\* The position of the bracket that closes the top-level object of a text
\* that starts with '{' (0 when there is none).
TopLevelClose(text) == ClosingAt(text, 2, 1, FALSE)

\* C22: when parse-from-text returns without any diagnostic, the top-level
\* object is closed and nothing but blanks and newlines follows its
\* closing '}'.
C22_SilentParseConsumedAll ==
    (pc = "parsed" /\ source = "raw" /\ thrown = "none" /\ log = <<>>) =>
        /\ IsPrefix(<<"{">>, raw)
        /\ TopLevelClose(raw) > 0
        /\ \A i \in (TopLevelClose(raw) + 1)..Len(raw) :
              IsWhitespace(raw[i]) \/ IsNewline(raw[i])
====
